---------------------------- MODULE Spec2Model ----------------------------
(***************************************************************************)
(* Model of the terminal multiplexer daemon (session.go, pane.go), its     *)
(* per-connection handler SessionManager.Run, the client mirror            *)
(* (clientstate.go, client.go) and the 5-byte-header wire format.          *)
(*                                                                         *)
(* Spec      : the session, its handlers, the pane output goroutines and   *)
(*             the clients' mirrors.                                       *)
(* WireSpec  : one connection as a byte stream with concurrent writers and *)
(*             the read loop's decoder.                                    *)
(* ReaderSpec: a read loop (header, length, payload) fed by any peer.      *)
(* BufferSpec: one hand-written PaneBuffer of a client under Write and     *)
(*             resize calls.                                               *)
(* ProcessSpec: Spec with pane processes that exit and data messages.      *)
(* LockSpec  : Session.clientMutex, Broadcast and socket writes that block.*)
(* PipeSpec  : one pane's reader, its output queue and the drain.          *)
(* RaceSpec  : the client's resize goroutine and read loop on ClientState. *)
(* InputSpec : the client's input loop and its prefix mode.                *)
(*                                                                         *)
(* A connection delivers whole frames in the order they were written and   *)
(* the client's read loop handles them one after the other, so the mirror  *)
(* of a client is kept as the state its read loop has after the frames     *)
(* written to its connection so far.                                       *)
(***************************************************************************)
EXTENDS Integers, Sequences, FiniteSets, TLC

(* ------------------------------ bounds -------------------------------- *)
NumConns == 2
MaxPanes == 2

Conns == 1..NumConns
PaneIds == 0..(MaxPanes - 1)
NoOwner == 0

MaxFrames == 2
MaxPayload == 256
MaxRead == 2
MaxWidth == 2
MaxHeight == 2
MaxCalls == 3
BufLen == 2
MaxStream == 3
MaxKeys == 3

(* --------------------------- message types ---------------------------- *)
TData == 0
TResize == 1
TNewWindow == 2
TNextWindow == 3
TPrevWindow == 4
TKillWindow == 5
TSplit == 6
TNextPane == 7
TRedraw == 8
THelp == 9
TNewPaneNotify == 10
TSwitchNotify == 11

\* the status carried by the help redraw (a multi-line text, not "Pane: N")
HelpStatus == 0 - 1

Msg(t, a) == [type |-> t, arg |-> a]

VARIABLES
    panes,        \* Session.panes: the pane ids in list order
    activePane,   \* Session.activePane (an index, 0-based)
    nextPaneID,   \* Session.nextPaneID
    mutex,        \* Session.mutex: the handler that holds it, or NoOwner
    clients,      \* Session.clients
    pc,           \* position of each connection's handler goroutine
    msgType,      \* the handler's msgType local (the message being dispatched)
    clientState,  \* ClientState of the client of each connection
    \* history variables
    opsBegun,     \* a structural command has been dispatched
    opPre,        \* session state when the running operation took the lock
    opClients,    \* Session.clients at that moment
    opLog,        \* what the running operation has broadcast, per connection
    throughout,   \* the connection attached before any structural command
    dropped,      \* pane ids whose data HandleDataMessage found no buffer for,
                  \* per connection, while the running operation holds the lock
    \* one connection as two byte streams (WireSpec)
    wire,         \* bytes written and not yet read, per direction
    wbuf,         \* per writer: the conn.Write calls it still has to make
    wmsg,         \* per writer: the message it is sending
    sent,         \* messages whose Write calls are done, per direction
    received,     \* messages the read loop has decoded, per direction
    frames,       \* messages built so far
    \* a read loop fed by an arbitrary peer (ReaderSpec)
    rdPc,         \* where the read loop is: "header", "payload" or "closed"
    rdHeader,     \* the header bytes io.ReadFull has got so far
    rdLen,        \* len(payload): the buffer allocated for the payload
    rdGot,        \* the payload bytes io.ReadFull has got so far
    \* one pane buffer of a client (BufferSpec)
    pb,           \* the PaneBuffer: content, cursor, size and escape state
    pbPanicked,   \* Write indexed outside the grid: the client has crashed
    pbCalls,      \* history: calls made on the buffer so far
    pbLast,       \* history: the last call made on the buffer
    pbChunk,      \* history: the bytes passed to the last Write call
    pbBefore,     \* history: the buffer before the last call
    \* the processes of the panes (ProcessSpec)
    outputClosed, \* ids of the panes whose reader has closed Pane.output
    lastWrite,    \* history: what became of the last data message dispatched
    \* the client lock and blocking socket writes (LockSpec)
    clientMutex,  \* Session.clientMutex: the task that holds it, or NoOwner
    bMutex,       \* Session.mutex: the handler that holds it, or NoOwner
    bClients,     \* Session.clients
    bPc,          \* position of each handler and of the pane output goroutine
    bTodo,        \* Broadcast: the connections its loop has still to write to
    bCur,         \* Broadcast: the connection whose conn.Write is blocked, or 0
    sockFull,     \* per connection: the peer is not reading and the socket
                  \* buffer is full, so that a conn.Write to it blocks
    \* one pane's output path (PipeSpec)
    stream,       \* the bytes the pane's process has produced and Read returned
    buf,          \* Pane.Start: the reader's buffer
    output,       \* Pane.output: the queued slices buf[:n], as their lengths n
    payloads,     \* the data payloads broadcast for the pane, concatenated
    \* the two goroutines of a client that use its ClientState (RaceSpec)
    uiWidth,      \* ui.Size(): the width of the client's screen
    bufWidth,     \* ClientState.paneBuffers: per pane id the width of its
                  \* buffer, 0 when the map has no buffer for the id
    winPc,        \* the window-resize goroutine: "wait" or "update"
    winTodo,      \* UpdatePaneBufferSizes: the buffers its loop has still to visit
    loopPc,       \* the read loop: "recv", "data" or "newpane"
    loopPane,     \* the pane id of the message the read loop is handling
    clientFatal,  \* the Go runtime has ended the client (concurrent map access)
    \* the client's input loop (InputSpec)
    prefixMode,   \* runClient's prefixMode local
    inDetached,   \* the input loop has returned (detach)
    inCount,      \* history: events handled so far
    inEvent,      \* history: the last event handled
    inPrefix,     \* history: prefixMode when that event arrived
    inSent        \* history: the messages written to the daemon for that event

sessionVars == <<panes, activePane, nextPaneID, mutex, clients>>
handlerVars == <<pc, msgType>>
opVars == <<opPre, opClients, opLog>>
histVars == <<opsBegun, throughout>>
daemonVars == <<sessionVars, handlerVars, clientState, opVars, histVars, dropped>>
wireVars == <<wire, wbuf, wmsg, sent, received, frames>>
readerVars == <<rdPc, rdHeader, rdLen, rdGot>>
bufferVars == <<pb, pbPanicked, pbCalls, pbLast, pbChunk, pbBefore>>
processVars == <<outputClosed, lastWrite>>
lockVars == <<clientMutex, bMutex, bClients, bPc, bTodo, bCur, sockFull>>
pipeVars == <<stream, buf, output, payloads>>
raceVars == <<uiWidth, bufWidth, winPc, winTodo, loopPc, loopPane, clientFatal>>
inputVars == <<prefixMode, inDetached, inCount, inEvent, inPrefix, inSent>>
extraVars == <<lockVars, pipeVars, raceVars, inputVars>>
nonDaemonVars == <<wireVars, readerVars, bufferVars, processVars, extraVars>>
nonWireVars == <<daemonVars, readerVars, bufferVars, processVars, extraVars>>
nonReaderVars == <<daemonVars, wireVars, bufferVars, processVars, extraVars>>
nonBufferVars == <<daemonVars, wireVars, readerVars, processVars, extraVars>>
nonProcessVars == <<wireVars, readerVars, bufferVars, extraVars>>
coreVars == <<daemonVars, wireVars, readerVars, bufferVars, processVars>>
nonLockVars == <<coreVars, pipeVars, raceVars, inputVars>>
nonPipeVars == <<coreVars, lockVars, raceVars, inputVars>>
nonRaceVars == <<coreVars, lockVars, pipeVars, inputVars>>
nonInputVars == <<coreVars, lockVars, pipeVars, raceVars>>
vars == <<daemonVars, wireVars, readerVars, bufferVars, processVars, extraVars>>

NoOp == [panes |-> <<>>, a |-> 0, next |-> 0]
NoLog == [c \in Conns |-> <<>>]

\* a handler is between taking the lock for a structural change and
\* releasing it
OpPcs == {"np_notify", "np_redraw", "np_return", "switchPane", "sw_redraw", "unlock"}
InOp == \E h \in Conns : pc[h] \in OpPcs

(* ------------------------------ client -------------------------------- *)
\* The mirror is activePaneID and the keys of paneBuffers.  The status text
\* is only painted (Draw); it decides nothing and is left out.

\* NewClientState: one buffer, for pane 0, which is the active one
NewClientState == [activePaneID |-> 0, paneBuffers |-> {0}]

\* the client process does not exist (no connection)
NoClient == [activePaneID |-> 0, paneBuffers |-> {}]

\* HandleDataMessage: written to the pane's buffer if there is one, else dropped
HandleDataMessage(cs, paneID) == cs

\* HandleRedrawMessage: the status text only
HandleRedrawMessage(cs, status) == cs

\* HandleNewPaneMessage: a buffer for the pane, which becomes the active one
HandleNewPaneMessage(cs, newPaneID) ==
    [activePaneID |-> newPaneID,
     paneBuffers |-> cs.paneBuffers \cup {newPaneID}]

\* faulty variant: the switch notification is ignored (sensitivity of C6)
HandleSwitchPaneMessage_Ignored(cs, targetPaneID) == cs

\* HandleSwitchPaneMessage: the active id only, no buffer
HandleSwitchPaneMessage(cs, targetPaneID) ==
    [cs EXCEPT !.activePaneID = targetPaneID]

\* HandleDataMessage's else branch: no buffer for the pane, the chunk is
\* only logged
Dropped(d, cs, m) ==
    IF InOp /\ m.type = TData /\ m.arg \notin cs.paneBuffers THEN d \cup {m.arg} ELSE d

\* runClient, the read loop's switch on msgType
ClientDispatch(cs, m) ==
    CASE m.type = TData -> HandleDataMessage(cs, m.arg)
      [] m.type = TRedraw -> HandleRedrawMessage(cs, m.arg)
      [] m.type = TNewPaneNotify -> HandleNewPaneMessage(cs, m.arg)
      [] m.type = TSwitchNotify -> HandleSwitchPaneMessage(cs, m.arg)
      [] OTHER -> cs

(* ----------------------------- helpers -------------------------------- *)
\* faulty variant: the counter is not advanced (sensitivity of C8)
NextID_Stuck(n) == n

\* faulty variants: the modulo is forgotten (sensitivity of C1 and C7)
NextIndex_NoWrap(a, n) == a + 1
PrevIndex_NoWrap(a, n) == a - 1

\* NewPane line 68: s.nextPaneID++
NextID(n) == n + 1

\* Run, case 0x03 / 0x07: (activePane + 1) % len(panes)
NextIndex(a, n) == (a + 1) % n

\* Run, case 0x04: (activePane - 1 + len(panes)) % len(panes)
PrevIndex(a, n) == (a - 1 + n) % n

\* conn.Write of one whole frame to each connection of `to`
WriteTo(to, m) ==
    /\ clientState' = [c \in Conns |-> IF c \in to THEN ClientDispatch(clientState[c], m)
                                                  ELSE clientState[c]]
    /\ dropped' = [c \in Conns |-> IF c \in to THEN Dropped(dropped[c], clientState[c], m)
                                              ELSE dropped[c]]

\* Session.Broadcast: under clientMutex, one Write per registered connection
Broadcast(m) == WriteTo(clients, m)

\* Session.Broadcast called by the operation that holds the session lock
OpBroadcast(m) ==
    /\ Broadcast(m)
    /\ opLog' = [c \in Conns |-> IF c \in clients THEN Append(opLog[c], m) ELSE opLog[c]]

\* Session.redraw: "Pane: %d" of the active index
RedrawMsg == Msg(TRedraw, activePane)

(* ------------------------------- Init --------------------------------- *)
\* NewSession: NewPane() with no client attached; the spawn may fail
Init ==
    /\ \E ok \in BOOLEAN :
        /\ panes = IF ok THEN <<0>> ELSE <<>>
        /\ nextPaneID = IF ok THEN 1 ELSE 0
    /\ activePane = 0
    /\ mutex = NoOwner
    /\ clients = {}
    /\ pc = [c \in Conns |-> "idle"]
    /\ msgType = [c \in Conns |-> TData]
    /\ clientState = [c \in Conns |-> NoClient]
    /\ opsBegun = FALSE
    /\ opPre = NoOp
    /\ opClients = {}
    /\ opLog = NoLog
    /\ throughout = [c \in Conns |-> FALSE]
    /\ dropped = [c \in Conns |-> {}]
    /\ wire = [d \in {"toClient", "toDaemon"} |-> <<>>]
    /\ wbuf = [w \in {"broadcaster", "handler", "help", "resize", "input"} |-> <<>>]
    /\ wmsg = [w \in {"broadcaster", "handler", "help", "resize", "input"} |->
                  [type |-> 0, payload |-> <<>>]]
    /\ sent = [d \in {"toClient", "toDaemon"} |-> <<>>]
    /\ received = [d \in {"toClient", "toDaemon"} |-> <<>>]
    /\ frames = 0
    /\ rdPc = "header"
    /\ rdHeader = <<>>
    /\ rdLen = 0
    /\ rdGot = 0
    /\ pb = [content |-> [y \in 1..MaxHeight |-> [x \in 1..MaxWidth |-> 32]],
             cursorX |-> 0, cursorY |-> 0,
             width |-> MaxWidth, height |-> MaxHeight,
             inEscape |-> FALSE, escapeBuf |-> <<>>]
    /\ pbPanicked = FALSE
    /\ pbCalls = 0
    /\ pbLast = "new"
    /\ pbChunk = <<>>
    /\ pbBefore = pb
    /\ outputClosed = {}
    /\ lastWrite = "none"
    /\ clientMutex = NoOwner
    /\ bMutex = NoOwner
    /\ bClients = {}
    /\ bPc = [t \in 1..(NumConns + 1) |-> IF t \in Conns THEN "idle" ELSE "wait"]
    /\ bTodo = {}
    /\ bCur = 0
    /\ sockFull = [c \in Conns |-> FALSE]
    /\ stream = <<>>
    /\ buf = [i \in 1..BufLen |-> 0]
    /\ output = <<>>
    /\ payloads = <<>>
    /\ uiWidth = 1
    /\ bufWidth = [p \in PaneIds |-> IF p = 0 THEN 1 ELSE 0]
    /\ winPc = "wait"
    /\ winTodo = {}
    /\ loopPc = "recv"
    /\ loopPane = 0
    /\ clientFatal = FALSE
    /\ prefixMode = FALSE
    /\ inDetached = FALSE
    /\ inCount = 0
    /\ inEvent = [key |-> "None", rune |-> 0]
    /\ inPrefix = FALSE
    /\ inSent = <<>>

(* ------------------------ attach and detach --------------------------- *)
\* Daemon.Run accepts the connection; Run line 121: AddClient.  The client
\* process has built its ClientState (NewClientState) by then.
Attach(c) ==
    /\ UNCHANGED nonDaemonVars
    /\ pc[c] = "idle"
    /\ clients' = clients \cup {c}
    /\ pc' = [pc EXCEPT ![c] = "redraw"]
    /\ clientState' = [clientState EXCEPT ![c] = NewClientState]
    /\ throughout' = [throughout EXCEPT ![c] = ~opsBegun]
    /\ UNCHANGED <<panes, activePane, nextPaneID, mutex, msgType,
                   opVars, opsBegun, dropped>>

\* Run line 125: the initial redraw, a Broadcast made without the session lock
InitialRedraw(c) ==
    /\ UNCHANGED nonDaemonVars
    /\ pc[c] = "redraw"
    /\ Broadcast(RedrawMsg)
    /\ pc' = [pc EXCEPT ![c] = "read"]
    /\ UNCHANGED <<sessionVars, msgType, opVars, histVars>>

\* faulty variant: the handler returns without RemoveClient (sensitivity of
\* C12)
Detach_KeepsClient(c) ==
    /\ UNCHANGED nonDaemonVars
    /\ pc[c] = "read"
    /\ pc' = [pc EXCEPT ![c] = "idle"]
    /\ clientState' = [clientState EXCEPT ![c] = NoClient]
    /\ throughout' = [throughout EXCEPT ![c] = FALSE]
    /\ dropped' = [dropped EXCEPT ![c] = {}]
    /\ opLog' = [opLog EXCEPT ![c] = <<>>]
    /\ opClients' = opClients \ {c}
    /\ UNCHANGED <<panes, activePane, nextPaneID, mutex, clients, msgType,
                   opPre, opsBegun>>

\* Run lines 129-132 / 137-140 with the deferred RemoveClient: the peer closed.
\* The client process is gone: its state and history no longer matter.
Detach(c) ==
    /\ UNCHANGED nonDaemonVars
    /\ pc[c] = "read"
    /\ clients' = clients \ {c}
    /\ pc' = [pc EXCEPT ![c] = "idle"]
    /\ clientState' = [clientState EXCEPT ![c] = NoClient]
    /\ throughout' = [throughout EXCEPT ![c] = FALSE]
    /\ dropped' = [dropped EXCEPT ![c] = {}]
    /\ opLog' = [opLog EXCEPT ![c] = <<>>]
    /\ opClients' = opClients \ {c}
    /\ UNCHANGED <<panes, activePane, nextPaneID, mutex, msgType,
                   opPre, opsBegun>>

(* ----------------------------- dispatch ------------------------------- *)
\* Run case 0x02: NewPane is called with the session lock held
DispatchNewWindow(c) ==
    /\ UNCHANGED nonDaemonVars
    /\ pc[c] = "read"
    /\ mutex = NoOwner
    /\ mutex' = c
    /\ msgType' = [msgType EXCEPT ![c] = TNewWindow]
    /\ pc' = [pc EXCEPT ![c] = "NewPane"]
    /\ opsBegun' = TRUE
    /\ UNCHANGED <<panes, activePane, nextPaneID, clients, clientState,
                   opVars, throughout, dropped>>

\* Run case 0x06: the lock is released (line 177) before NewPane is called
DispatchSplit(c) ==
    /\ UNCHANGED nonDaemonVars
    /\ pc[c] = "read"
    /\ mutex = NoOwner
    /\ msgType' = [msgType EXCEPT ![c] = TSplit]
    /\ pc' = [pc EXCEPT ![c] = "NewPane"]
    /\ opsBegun' = TRUE
    /\ UNCHANGED <<sessionVars, clientState, opVars, throughout, dropped>>

\* Run cases 0x03, 0x07 and 0x04: the index moves, then switchPane is called
DispatchSwitch(c, t) ==
    /\ UNCHANGED nonDaemonVars
    /\ pc[c] = "read"
    /\ mutex = NoOwner
    /\ opsBegun' = TRUE
    /\ IF Len(panes) > 0
       THEN /\ mutex' = c
            /\ msgType' = [msgType EXCEPT ![c] = t]
            /\ activePane' = IF t = TPrevWindow
                             THEN PrevIndex(activePane, Len(panes))
                             ELSE NextIndex(activePane, Len(panes))
            /\ pc' = [pc EXCEPT ![c] = "switchPane"]
            /\ opPre' = [panes |-> panes, a |-> activePane, next |-> nextPaneID]
            /\ opClients' = clients
            /\ opLog' = NoLog
       ELSE UNCHANGED <<mutex, activePane, handlerVars, opVars>>
    /\ UNCHANGED <<panes, nextPaneID, clients, clientState, throughout,
                   dropped>>

\* Run case 0x05: RemovePane is called with the session lock held
DispatchKill(c) ==
    /\ UNCHANGED nonDaemonVars
    /\ pc[c] = "read"
    /\ mutex = NoOwner
    /\ opsBegun' = TRUE
    /\ IF Len(panes) > 0
       THEN /\ mutex' = c
            /\ msgType' = [msgType EXCEPT ![c] = TKillWindow]
            /\ pc' = [pc EXCEPT ![c] = "RemovePane"]
       ELSE UNCHANGED <<mutex, handlerVars>>
    /\ UNCHANGED <<panes, activePane, nextPaneID, clients, clientState,
                   opVars, throughout, dropped>>

\* Run case 0x09: redrawWithContent writes to this connection only, under
\* the session lock and outside clientMutex
DispatchHelp(c) ==
    /\ UNCHANGED nonDaemonVars
    /\ pc[c] = "read"
    /\ mutex = NoOwner
    /\ WriteTo({c}, Msg(TRedraw, HelpStatus))
    /\ UNCHANGED <<sessionVars, handlerVars, opVars, histVars>>

(* --------------------------- Session.NewPane -------------------------- *)
\* faulty variant: the identifier is consumed before the process is
\* spawned, so a failed spawn uses one up (sensitivity of C19)
NewPaneEnter_CountsFailed(c) ==
    /\ UNCHANGED nonDaemonVars
    /\ pc[c] = "NewPane"
    /\ mutex = NoOwner
    /\ \E ok \in BOOLEAN :
        IF ok /\ nextPaneID < MaxPanes
        THEN /\ mutex' = c
             /\ nextPaneID' = NextID(nextPaneID)
             /\ panes' = Append(panes, nextPaneID)
             /\ activePane' = Len(panes') - 1
             /\ pc' = [pc EXCEPT ![c] = "np_notify"]
             /\ opPre' = [panes |-> panes, a |-> activePane, next |-> nextPaneID]
             /\ opClients' = clients
             /\ opLog' = NoLog
             /\ UNCHANGED msgType
        ELSE /\ pc' = [pc EXCEPT ![c] = "np_failed"]
             /\ nextPaneID' = IF nextPaneID < MaxPanes THEN NextID(nextPaneID)
                              ELSE nextPaneID
             /\ UNCHANGED <<mutex, panes, activePane, opVars, msgType>>
    /\ UNCHANGED <<clients, clientState, histVars, dropped>>

\* NewPane lines 61-88: Lock; on a spawn error return it (deferred Unlock);
\* otherwise the id is taken, the reader and the broadcast goroutine are
\* started, the pane is appended and made active.
NewPaneEnter(c) ==
    /\ UNCHANGED nonDaemonVars
    /\ pc[c] = "NewPane"
    /\ mutex = NoOwner
    /\ \E ok \in BOOLEAN :
        IF ok /\ nextPaneID < MaxPanes
        THEN /\ mutex' = c
             /\ nextPaneID' = NextID(nextPaneID)
             /\ panes' = Append(panes, nextPaneID)
             /\ activePane' = Len(panes') - 1
             /\ pc' = [pc EXCEPT ![c] = "np_notify"]
             /\ opPre' = [panes |-> panes, a |-> activePane, next |-> nextPaneID]
             /\ opClients' = clients
             /\ opLog' = NoLog
              /\ UNCHANGED msgType
        ELSE /\ pc' = [pc EXCEPT ![c] = "np_failed"]
             /\ UNCHANGED <<mutex, nextPaneID, panes, activePane, opVars, msgType>>
    /\ UNCHANGED <<clients, clientState, histVars, dropped>>

\* Run lines 179-184: NewPane has returned an error; the handler prints it
\* and continues with the next message
NewPaneFailed(c) ==
    /\ UNCHANGED nonDaemonVars
    /\ pc[c] = "np_failed"
    /\ pc' = [pc EXCEPT ![c] = "read"]
    /\ msgType' = [msgType EXCEPT ![c] = TData]
    /\ UNCHANGED <<sessionVars, clientState, opVars, histVars, dropped>>

\* NewPane lines 91-97: the new-pane notification carrying p.id
NewPaneNotify(c) ==
    /\ UNCHANGED nonDaemonVars
    /\ pc[c] = "np_notify"
    /\ OpBroadcast(Msg(TNewPaneNotify, panes[Len(panes)]))
    /\ pc' = [pc EXCEPT ![c] = "np_redraw"]
    /\ UNCHANGED <<sessionVars, msgType, opPre, opClients, histVars>>

\* faulty variant: NewPane returns without the redraw (sensitivity of C3)
NewPaneRedraw_Skipped(c) ==
    /\ UNCHANGED nonDaemonVars
    /\ pc[c] = "np_redraw"
    /\ pc' = [pc EXCEPT ![c] = "np_return"]
    /\ UNCHANGED <<sessionVars, msgType, clientState, opVars, histVars,
                   dropped>>

\* NewPane line 99: s.redraw()
NewPaneRedraw(c) ==
    /\ UNCHANGED nonDaemonVars
    /\ pc[c] = "np_redraw"
    /\ OpBroadcast(RedrawMsg)
    /\ pc' = [pc EXCEPT ![c] = "np_return"]
    /\ UNCHANGED <<sessionVars, msgType, opPre, opClients, histVars>>

\* NewPane line 100 with the deferred Unlock; Run line 184 continues the loop
NewPaneReturn(c) ==
    /\ UNCHANGED nonDaemonVars
    /\ pc[c] = "np_return"
    /\ mutex' = NoOwner
    /\ pc' = [pc EXCEPT ![c] = "read"]
    /\ msgType' = [msgType EXCEPT ![c] = TData]
    /\ opPre' = NoOp
    /\ opClients' = {}
    /\ opLog' = NoLog
    /\ dropped' = [d \in Conns |-> {}]
    /\ UNCHANGED <<panes, activePane, nextPaneID, clients, clientState,
                   histVars>>

(* -------------------------- Session.switchPane ------------------------ *)
\* faulty variant: switchPane does not send the notification (sensitivity
\* of C23)
SwitchNotify_Skipped(c) ==
    /\ UNCHANGED nonDaemonVars
    /\ pc[c] = "switchPane"
    /\ pc' = [pc EXCEPT ![c] = "sw_redraw"]
    /\ UNCHANGED <<sessionVars, msgType, clientState, opVars, histVars,
                   dropped>>

\* switchPane lines 227-232: the notification carries the id Run passed,
\* panes[activePane].id
SwitchNotify(c) ==
    /\ UNCHANGED nonDaemonVars
    /\ pc[c] = "switchPane"
    /\ OpBroadcast(Msg(TSwitchNotify, panes[activePane + 1]))
    /\ pc' = [pc EXCEPT ![c] = "sw_redraw"]
    /\ UNCHANGED <<sessionVars, msgType, opPre, opClients, histVars>>

\* switchPane line 233: s.redraw()
SwitchRedraw(c) ==
    /\ UNCHANGED nonDaemonVars
    /\ pc[c] = "sw_redraw"
    /\ OpBroadcast(RedrawMsg)
    /\ pc' = [pc EXCEPT ![c] = "unlock"]
    /\ UNCHANGED <<sessionVars, msgType, opPre, opClients, histVars>>

\* Run line 203
Unlock(c) ==
    /\ UNCHANGED nonDaemonVars
    /\ pc[c] = "unlock"
    /\ mutex' = NoOwner
    /\ pc' = [pc EXCEPT ![c] = "read"]
    /\ msgType' = [msgType EXCEPT ![c] = TData]
    /\ opPre' = NoOp
    /\ opClients' = {}
    /\ opLog' = NoLog
    /\ dropped' = [d \in Conns |-> {}]
    /\ UNCHANGED <<panes, activePane, nextPaneID, clients, clientState,
                   histVars>>

(* ------------------------- pane output goroutines --------------------- *)
\* Pane.Start's reader goroutine reads a chunk and sends it on p.output;
\* the goroutine of NewPane lines 75-88 receives it and broadcasts a data
\* message prefixed with the pane id.  Both run from the moment NewPane has
\* started them (lines 69 and 75).
PaneOutput(p) ==
    /\ UNCHANGED nonDaemonVars
    /\ \E i \in 1..Len(panes) : panes[i] = p
    /\ Broadcast(Msg(TData, p))
    /\ UNCHANGED <<sessionVars, handlerVars, opVars, histVars>>

(* ------------------------------- Next --------------------------------- *)
Next ==
    \/ \E c \in Conns : Attach(c)
    \/ \E c \in Conns : InitialRedraw(c)
    \/ \E c \in Conns : Detach(c)
    \/ \E c \in Conns : DispatchNewWindow(c)
    \/ \E c \in Conns : DispatchSplit(c)
    \/ \E c \in Conns : \E t \in {TNextWindow, TPrevWindow, TNextPane} : DispatchSwitch(c, t)
    \/ \E c \in Conns : DispatchKill(c)
    \/ \E c \in Conns : DispatchHelp(c)
    \/ \E c \in Conns : NewPaneEnter(c)
    \/ \E c \in Conns : NewPaneFailed(c)
    \/ \E c \in Conns : NewPaneNotify(c)
    \/ \E c \in Conns : NewPaneRedraw(c)
    \/ \E c \in Conns : NewPaneReturn(c)
    \/ \E c \in Conns : SwitchNotify(c)
    \/ \E c \in Conns : SwitchRedraw(c)
    \/ \E c \in Conns : Unlock(c)
    \/ \E p \in PaneIds : PaneOutput(p)

Spec == Init /\ [][Next]_vars

(* ------------------------------ the wire ------------------------------ *)
\* The goroutines that write to a connection: towards the client the pane
\* output broadcaster (NewPane lines 75-88), a handler's Broadcast (lines
\* 91-99, 225-234) and the help redraw (redrawWithContent); towards the
\* daemon the client's resize goroutine and its input loop.
Writers == {"broadcaster", "handler", "help", "resize", "input"}
Dirs == {"toClient", "toDaemon"}
Dir(w) == IF w \in {"resize", "input"} THEN "toDaemon" ELSE "toClient"

\* the message types each writer sends
TypesOf(w) ==
    CASE w = "broadcaster" -> {TData}
      [] w = "handler" -> {TRedraw, TNewPaneNotify, TSwitchNotify}
      [] w = "help" -> {TRedraw}
      [] w = "resize" -> {TResize}
      [] w = "input" -> {TData, TNewWindow, TNextWindow, TPrevWindow, TKillWindow,
                         TSplit, TNextPane, TRedraw, THelp}

\* the payload lengths each writer sends: the input loop sends commands with
\* no payload and keys as one byte of data
LensOf(w, t) ==
    IF w = "input" THEN (IF t = TData THEN {1} ELSE {0}) ELSE {1, MaxPayload}

\* a payload of n bytes
Bytes(n, b) == [i \in 1..n |-> (b + i) % 256]

NoMsg == [type |-> 0, payload |-> <<>>]

\* faulty variant: the length is stored low byte first (sensitivity of C10)
PutUint32_LittleEndian(v) ==
    << v % 256, (v \div 256) % 256, (v \div 65536) % 256, (v \div 16777216) % 256 >>

\* binary.BigEndian.PutUint32(header[1:], uint32(v)): the low 32 bits of v,
\* high byte first
PutUint32(v) ==
    << (v \div 16777216) % 256, (v \div 65536) % 256, (v \div 256) % 256, v % 256 >>

\* binary.BigEndian.Uint32(header[1:])
Uint32(b) == ((b[1] * 256 + b[2]) * 256 + b[3]) * 256 + b[4]

\* header := make([]byte, 5); header[0] = type; PutUint32(header[1:],
\* uint32(len(payload))); msg := append(header, payload...)
Encode(t, payload) == <<t>> \o PutUint32(Len(payload)) \o payload

\* the read loop's decoder: io.ReadFull of the 5-byte header, then of
\* payloadLen bytes; ok is FALSE when the bytes do not hold a whole frame
Decode(bytes) ==
    IF Len(bytes) < 5
    THEN [ok |-> FALSE, type |-> 0, payload |-> <<>>, rest |-> bytes]
    ELSE LET payloadLen == Uint32(SubSeq(bytes, 2, 5))
         IN  IF Len(bytes) < 5 + payloadLen
             THEN [ok |-> FALSE, type |-> 0, payload |-> <<>>, rest |-> bytes]
             ELSE [ok |-> TRUE,
                   type |-> bytes[1],
                   payload |-> SubSeq(bytes, 6, 5 + payloadLen),
                   rest |-> SubSeq(bytes, 6 + payloadLen, Len(bytes))]

\* the read loop run over a byte stream: the messages decoded and the bytes
\* left that hold no whole frame
RECURSIVE Parse(_)
Parse(bytes) ==
    LET r == Decode(bytes)
    IN  IF ~r.ok
        THEN [msgs |-> <<>>, rest |-> bytes]
        ELSE LET p == Parse(r.rest)
             IN  [msgs |-> <<[type |-> r.type, payload |-> r.payload]>> \o p.msgs,
                  rest |-> p.rest]

\* faulty variant: the header and the payload go out in two Write calls
\* (sensitivity of C9)
WriteCalls_HeaderThenPayload(msg) == << SubSeq(msg, 1, 5), SubSeq(msg, 6, Len(msg)) >>

\* every writer passes the whole frame to a single conn.Write (Broadcast
\* line 52, redrawWithContent line 215, client.go lines 121, 205, 241, 247)
WriteCalls(msg) == << msg >>

\* a writer builds the frame of a message of type t with n payload bytes
Build(w, t, n) ==
    /\ UNCHANGED nonWireVars
    /\ wbuf[w] = <<>>
    /\ frames < MaxFrames
    /\ frames' = frames + 1
    /\ wmsg' = [wmsg EXCEPT ![w] = [type |-> t, payload |-> Bytes(n, t)]]
    /\ wbuf' = [wbuf EXCEPT ![w] = WriteCalls(Encode(t, Bytes(n, t)))]
    /\ UNCHANGED <<wire, sent, received>>

\* conn.Write: the bytes of one call reach the stream together (a net.Conn
\* serialises concurrent Write calls)
ConnWrite(w) ==
    /\ UNCHANGED nonWireVars
    /\ wbuf[w] # <<>>
    /\ wire' = [wire EXCEPT ![Dir(w)] = @ \o Head(wbuf[w])]
    /\ wbuf' = [wbuf EXCEPT ![w] = Tail(@)]
    /\ IF Len(wbuf[w]) = 1
       THEN /\ sent' = [sent EXCEPT ![Dir(w)] = Append(@, wmsg[w])]
            /\ wmsg' = [wmsg EXCEPT ![w] = NoMsg]
       ELSE UNCHANGED <<sent, wmsg>>
    /\ UNCHANGED <<received, frames>>

\* one turn of the read loop at the other end (Run lines 127-140, client.go
\* lines 129-141)
ReadFrame(d) ==
    /\ UNCHANGED nonWireVars
    /\ Decode(wire[d]).ok
    /\ received' = [received EXCEPT ![d] =
                       Append(@, [type |-> Decode(wire[d]).type,
                                  payload |-> Decode(wire[d]).payload])]
    /\ wire' = [wire EXCEPT ![d] = Decode(wire[d]).rest]
    /\ UNCHANGED <<wbuf, wmsg, sent, frames>>

WireNext ==
    \/ \E w \in Writers : \E t \in TypesOf(w) : \E n \in LensOf(w, t) : Build(w, t, n)
    \/ \E w \in Writers : ConnWrite(w)
    \/ \E d \in Dirs : ReadFrame(d)

WireSpec == Init /\ [][WireNext]_vars

(* --------------------------- the read loop ---------------------------- *)
\* The decoder of SessionManager.Run (lines 127-140) and of the client's
\* read loop (client.go lines 128-141), byte by byte, reading what an
\* arbitrary peer sends.

\* the values of the bytes the peer sends in a header
HeaderBytes == {0, 1, 2}

\* the maximum payload length the specification asks the decoder to enforce;
\* the code configures none
FrameLimit == 65536

\* io.ReadFull(conn, header) gets one more byte.  With the fifth byte the
\* header is complete: payloadLen := Uint32(header[1:]) and
\* payload := make([]byte, payloadLen), whatever payloadLen is; the loop then
\* reads the payload (an empty one is read at once and the loop starts over).
ReadHeader(b) ==
    /\ UNCHANGED nonReaderVars
    /\ rdPc = "header"
    /\ IF Len(rdHeader) < 4
       THEN /\ rdHeader' = Append(rdHeader, b)
            /\ UNCHANGED <<rdPc, rdLen, rdGot>>
       ELSE LET payloadLen == Uint32(SubSeq(Append(rdHeader, b), 2, 5))
            IN  IF payloadLen = 0
                THEN /\ rdHeader' = <<>>
                     /\ UNCHANGED <<rdPc, rdLen, rdGot>>
                ELSE /\ rdHeader' = Append(rdHeader, b)
                     /\ rdPc' = "payload"
                     /\ rdLen' = payloadLen
                     /\ rdGot' = 0

\* io.ReadFull(conn, payload) gets one more byte; with the last one the
\* message is dispatched and the loop reads the next header
ReadPayload ==
    /\ UNCHANGED nonReaderVars
    /\ rdPc = "payload"
    /\ rdGot < MaxRead
    /\ IF rdGot + 1 = rdLen
       THEN /\ rdPc' = "header"
            /\ rdHeader' = <<>>
            /\ rdLen' = 0
            /\ rdGot' = 0
       ELSE /\ rdGot' = rdGot + 1
            /\ UNCHANGED <<rdPc, rdHeader, rdLen>>

\* the peer closes the connection: io.ReadFull returns an error (lines
\* 129-132, 137-140) and the loop returns
ReadError ==
    /\ UNCHANGED nonReaderVars
    /\ rdPc \in {"header", "payload"}
    /\ rdPc' = "closed"
    /\ UNCHANGED <<rdHeader, rdLen, rdGot>>

ReaderNext ==
    \/ \E b \in HeaderBytes : ReadHeader(b)
    \/ ReadPayload
    \/ ReadError

ReaderSpec == Init /\ [][ReaderNext]_vars

(* --------------------------- the pane buffer -------------------------- *)
\* The PaneBuffer with its own escape parser (PaneBuffer.Write) and the
\* resize that re-creates its grid (ClientState.UpdatePaneBufferSizes).
\* Rows and columns are numbered from 0 as in the code; content[y + 1][x + 1]
\* is the cell content[y][x] of the code.

ESC == 27
BEL == 7
LF == 10
CR == 13
BS == 8
Blank == 32

\* '[' ']' '\' '2' 'J' 'H' 'm' 'a'
LBracket == 91
RBracket == 93
Backslash == 92
Digit2 == 50
LetterJ == 74
LetterH == 72
LetterM == 109
LetterA == 97

\* the bytes written to the buffer
PaneBytes == {ESC, BEL, LF, CR, BS, LBracket, RBracket, Backslash, Digit2,
              LetterJ, LetterA}

\* a grid of blank cells
BlankGrid(width, height) == [y \in 1..height |-> [x \in 1..width |-> Blank]]

\* NewPaneBuffer
NewPaneBuffer(width, height) ==
    [content |-> BlankGrid(width, height),
     cursorX |-> 0, cursorY |-> 0,
     width |-> width, height |-> height,
     inEscape |-> FALSE, escapeBuf |-> <<>>]

\* Write, the inEscape branch: the byte is appended to escapeBuf (whose
\* first byte is the ESC that opened the sequence); a byte in 0x40..0x7E
\* ends the sequence and is acted on if the sequence starts with '['; BEL
\* ends it, and so does '\' if the sequence starts with ']'
WriteInEscape(p, b) ==
    LET seq == Append(p.escapeBuf, b)
    IN  IF b >= 64 /\ b <= 126
        THEN LET q == [p EXCEPT !.inEscape = FALSE, !.escapeBuf = <<>>]
             IN  IF Len(seq) > 1 /\ seq[1] = LBracket
                 THEN CASE b = LetterH -> [q EXCEPT !.cursorX = 0, !.cursorY = 0]
                        [] b = LetterJ -> [q EXCEPT !.content = BlankGrid(p.width, p.height),
                                                    !.cursorX = 0, !.cursorY = 0]
                        [] OTHER -> q
                 ELSE q
        ELSE IF b = BEL
             THEN [p EXCEPT !.inEscape = FALSE, !.escapeBuf = <<>>]
             ELSE IF Len(seq) > 1 /\ seq[1] = RBracket /\ b = Backslash
                  THEN [p EXCEPT !.inEscape = FALSE, !.escapeBuf = <<>>]
                  ELSE [p EXCEPT !.escapeBuf = seq]

\* Write, the last branch: a pending wrap (cursorX >= width) is done, then a
\* scroll if the cursor is below the grid, then the byte is stored and the
\* cursor moves right
WritePrintable(p, b) ==
    LET x1 == IF p.cursorX >= p.width THEN 0 ELSE p.cursorX
        y1 == IF p.cursorX >= p.width THEN p.cursorY + 1 ELSE p.cursorY
        scroll == y1 >= p.height
        c2 == IF scroll
              THEN [y \in 1..p.height |->
                       IF y < p.height THEN p.content[y + 1]
                                       ELSE [x \in 1..p.width |-> Blank]]
              ELSE p.content
        y2 == IF scroll THEN p.height - 1 ELSE y1
    IN  [p EXCEPT !.content = [c2 EXCEPT ![y2 + 1][x1 + 1] = b],
                  !.cursorX = x1 + 1,
                  !.cursorY = y2]

\* Write's backspace branch stores a blank at content[cursorY][cursorX]
\* without checking the row: the index is outside the grid when the cursor
\* is below the last row
BackspacePanics(p) == ~p.inEscape /\ (p.cursorY < 0 \/ p.cursorY >= p.height)

\* PaneBuffer.Write for one byte
WriteByte(p, b) ==
    IF p.inEscape THEN WriteInEscape(p, b)
    ELSE IF b = ESC THEN [p EXCEPT !.inEscape = TRUE, !.escapeBuf = Append(p.escapeBuf, b)]
    ELSE IF b = LF THEN [p EXCEPT !.cursorY = p.cursorY + 1, !.cursorX = 0]
    ELSE IF b = CR THEN [p EXCEPT !.cursorX = 0]
    ELSE IF b = BS
         THEN LET x1 == IF p.cursorX > 0 THEN p.cursorX - 1 ELSE p.cursorX
              IN  IF p.cursorY >= 0 /\ p.cursorY < p.height /\ x1 < p.width
                  THEN [p EXCEPT !.cursorX = x1, !.content[p.cursorY + 1][x1 + 1] = Blank]
                  ELSE [p EXCEPT !.cursorX = x1]
    ELSE WritePrintable(p, b)

\* PaneBuffer.Write: the loop over the bytes of p
RECURSIVE WriteBytes(_, _)
WriteBytes(p, bytes) ==
    IF bytes = <<>> THEN p
    ELSE WriteBytes(WriteByte(p, Head(bytes)), Tail(bytes))

\* some byte of the chunk makes Write index outside the grid
RECURSIVE WritePanics(_, _)
WritePanics(p, bytes) ==
    IF bytes = <<>> THEN FALSE
    ELSE \/ (Head(bytes) = BS /\ BackspacePanics(p))
         \/ WritePanics(WriteByte(p, Head(bytes)), Tail(bytes))

\* the chunks written: every single byte, so that every chunking of a byte
\* sequence is a run of Write steps, and the sequences the terminal sends as
\* one chunk: clear screen, an OSC ended by BEL, an OSC ended by ESC '\',
\* and a row of printable bytes as wide as the grid
ClearScreen == <<ESC, LBracket, Digit2, LetterJ>>
OscBel == <<ESC, RBracket, Digit2, LetterA, BEL>>
OscST == <<ESC, RBracket, Digit2, LetterA, ESC, Backslash>>
FullRow(width) == [i \in 1..width |-> LetterA]
Chunks(width) == {<<b>> : b \in PaneBytes} \cup {ClearScreen, OscBel, OscST, FullRow(width)}
AllChunks == UNION {Chunks(w) : w \in 1..MaxWidth}

\* one call of PaneBuffer.Write
Write(p) ==
    /\ UNCHANGED nonBufferVars
    /\ ~pbPanicked
    /\ p \in Chunks(pb.width)
    /\ pbCalls < MaxCalls
    /\ pbCalls' = pbCalls + 1
    /\ pbLast' = "write"
    /\ pbChunk' = p
    /\ pbBefore' = pb
    /\ pb' = WriteBytes(pb, p)
    /\ pbPanicked' = WritePanics(pb, p)

\* ClientState.UpdatePaneBufferSizes: ui.Size() is (width, height + 1); the
\* grid is re-created blank with the new size and the cursor goes to (0,0)
UpdatePaneBufferSizes(width, height) ==
    /\ UNCHANGED nonBufferVars
    /\ ~pbPanicked
    /\ pb' = [pb EXCEPT !.width = width, !.height = height,
                        !.content = BlankGrid(width, height),
                        !.cursorX = 0, !.cursorY = 0]
    /\ pbLast' = "resize"
    /\ pbBefore' = pb
    /\ pbCalls < MaxCalls
    /\ pbCalls' = pbCalls + 1
    /\ UNCHANGED <<pbPanicked, pbChunk>>

BufferNext ==
    \/ \E p \in AllChunks : Write(p)
    \/ \E w \in 1..MaxWidth : \E h \in 1..MaxHeight : UpdatePaneBufferSizes(w, h)

BufferSpec == Init /\ [][BufferNext]_vars

(* ------------------------- pane processes ----------------------------- *)
\* Pane.Start lines 35-38: the shell of pane p has exited, ptmx.Read fails,
\* the reader closes p.output and returns.  The pane stays in Session.panes:
\* nothing but RemovePane takes it out.
PaneExit(p) ==
    /\ UNCHANGED <<daemonVars, nonProcessVars>>
    /\ \E i \in 1..Len(panes) : panes[i] = p
    /\ p \notin outputClosed
    /\ outputClosed' = outputClosed \cup {p}
    /\ UNCHANGED lastWrite

\* Run lines 142-148 and 203: a data message (0x00).  The handler takes the
\* lock, writes the payload to the active pane's pty and ignores the result
\* of ptmx.Write, which is an error once the pane's process is gone.
DispatchData(c) ==
    /\ UNCHANGED <<daemonVars, nonProcessVars>>
    /\ pc[c] = "read"
    /\ mutex = NoOwner
    /\ lastWrite' = IF Len(panes) = 0 THEN lastWrite
                    ELSE IF panes[activePane + 1] \in outputClosed THEN "dropped"
                    ELSE "written"
    /\ UNCHANGED outputClosed

ProcessNext ==
    \/ Next
    \/ \E p \in PaneIds : PaneExit(p)
    \/ \E c \in Conns : DispatchData(c)

ProcessSpec == Init /\ [][ProcessNext]_vars

(* ------------------ the client lock and blocked writes ---------------- *)
\* The tasks that call Broadcast: the handler of each connection and the
\* goroutine that drains a pane's output (NewPane lines 75-88).
PaneTask == NumConns + 1
Tasks == Conns \cup {PaneTask}

\* Daemon.Run lines 37-47: a connection is accepted and its handler started
Accept(c) ==
    /\ UNCHANGED nonLockVars
    /\ bPc[c] = "idle"
    /\ bPc' = [bPc EXCEPT ![c] = "AddClient"]
    /\ UNCHANGED <<clientMutex, bMutex, bClients, bTodo, bCur, sockFull>>

\* AddClient lines 34-36, then Run line 125 calls redraw, that is Broadcast
AddClient(c) ==
    /\ UNCHANGED nonLockVars
    /\ bPc[c] = "AddClient"
    /\ clientMutex = NoOwner
    /\ bClients' = bClients \cup {c}
    /\ bPc' = [bPc EXCEPT ![c] = "Broadcast"]
    /\ UNCHANGED <<clientMutex, bMutex, bTodo, bCur, sockFull>>

\* Run lines 142-170: a command is dispatched; the handler takes the session
\* lock and, holding it, calls switchPane, that is Broadcast
Dispatch(c) ==
    /\ UNCHANGED nonLockVars
    /\ bPc[c] = "read"
    /\ bMutex = NoOwner
    /\ bMutex' = c
    /\ bPc' = [bPc EXCEPT ![c] = "Broadcast"]
    /\ UNCHANGED <<clientMutex, bClients, bTodo, bCur, sockFull>>

\* NewPane lines 76-86: the goroutine has received a chunk of pane output
PaneChunk ==
    /\ UNCHANGED nonLockVars
    /\ bPc[PaneTask] = "wait"
    /\ bPc' = [bPc EXCEPT ![PaneTask] = "Broadcast"]
    /\ UNCHANGED <<clientMutex, bMutex, bClients, bTodo, bCur, sockFull>>

\* Broadcast line 48: clientMutex.Lock; the loop of line 51 ranges over the
\* connections registered at this moment
BroadcastLock(t) ==
    /\ UNCHANGED nonLockVars
    /\ bPc[t] = "Broadcast"
    /\ clientMutex = NoOwner
    /\ clientMutex' = t
    /\ bTodo' = bClients
    /\ bPc' = [bPc EXCEPT ![t] = "Write"]
    /\ UNCHANGED <<bMutex, bClients, bCur, sockFull>>

\* Broadcast lines 51-56: conn.Write to the next connection.  It returns
\* (with or without an error, which is only printed) unless the socket
\* buffer of that connection is full: then the call blocks.
BroadcastWrite(t, d) ==
    /\ UNCHANGED nonLockVars
    /\ bPc[t] = "Write"
    /\ clientMutex = t
    /\ bCur = 0
    /\ d \in bTodo
    /\ IF sockFull[d]
       THEN bCur' = d /\ UNCHANGED bTodo
       ELSE bTodo' = bTodo \ {d} /\ UNCHANGED bCur
    /\ UNCHANGED <<clientMutex, bMutex, bClients, bPc, sockFull>>

\* the blocked conn.Write returns: the peer has read, or has closed
WriteReturns(t) ==
    /\ UNCHANGED nonLockVars
    /\ bPc[t] = "Write"
    /\ clientMutex = t
    /\ bCur # 0
    /\ ~sockFull[bCur]
    /\ bTodo' = bTodo \ {bCur}
    /\ bCur' = 0
    /\ UNCHANGED <<clientMutex, bMutex, bClients, bPc, sockFull>>

\* Broadcast returns (deferred Unlock, line 49).  A handler that was
\* dispatching releases the session lock (Run line 203) and reads on; the
\* pane goroutine waits for the next chunk.
BroadcastReturn(t) ==
    /\ UNCHANGED nonLockVars
    /\ bPc[t] = "Write"
    /\ clientMutex = t
    /\ bCur = 0
    /\ bTodo = {}
    /\ clientMutex' = NoOwner
    /\ bMutex' = IF bMutex = t THEN NoOwner ELSE bMutex
    /\ bPc' = [bPc EXCEPT ![t] = IF t = PaneTask THEN "wait" ELSE "read"]
    /\ UNCHANGED <<bClients, bTodo, bCur, sockFull>>

\* Run lines 129-132 and 137-140: the read fails, Run returns and its
\* deferred RemoveClient is called.  The peer has closed the connection,
\* and then a write to it fails at once, or it has only shut down its
\* writing side and still does not read.
ReadEnds(c) ==
    /\ UNCHANGED nonLockVars
    /\ bPc[c] = "read"
    /\ bPc' = [bPc EXCEPT ![c] = "RemoveClient"]
    /\ \E closed \in BOOLEAN :
          sockFull' = [sockFull EXCEPT ![c] = IF closed THEN FALSE ELSE @]
    /\ UNCHANGED <<clientMutex, bMutex, bClients, bTodo, bCur>>

\* RemoveClient lines 41-43; then Daemon.Run's deferred conn.Close
RemoveClient(c) ==
    /\ UNCHANGED nonLockVars
    /\ bPc[c] = "RemoveClient"
    /\ clientMutex = NoOwner
    /\ bClients' = bClients \ {c}
    /\ bPc' = [bPc EXCEPT ![c] = "idle"]
    /\ sockFull' = [sockFull EXCEPT ![c] = FALSE]
    /\ UNCHANGED <<clientMutex, bMutex, bTodo, bCur>>

\* the client of connection c stops reading (it is suspended, or slow) and
\* its socket buffer fills up
PeerStalls(c) ==
    /\ UNCHANGED nonLockVars
    /\ bPc[c] \notin {"idle", "RemoveClient"}
    /\ ~sockFull[c]
    /\ sockFull' = [sockFull EXCEPT ![c] = TRUE]
    /\ UNCHANGED <<clientMutex, bMutex, bClients, bPc, bTodo, bCur>>

\* the client of connection c reads again
PeerReads(c) ==
    /\ UNCHANGED nonLockVars
    /\ sockFull[c]
    /\ sockFull' = [sockFull EXCEPT ![c] = FALSE]
    /\ UNCHANGED <<clientMutex, bMutex, bClients, bPc, bTodo, bCur>>

\* the steps of the daemon's task t
TaskStep(t) ==
    \/ t \in Conns /\ (Accept(t) \/ AddClient(t) \/ Dispatch(t) \/ RemoveClient(t))
    \/ t = PaneTask /\ PaneChunk
    \/ BroadcastLock(t)
    \/ \E d \in Conns : BroadcastWrite(t, d)
    \/ WriteReturns(t)
    \/ BroadcastReturn(t)

LockNext ==
    \/ \E c \in Conns : Accept(c)
    \/ \E c \in Conns : AddClient(c)
    \/ \E c \in Conns : Dispatch(c)
    \/ PaneChunk
    \/ \E t \in Tasks : BroadcastLock(t)
    \/ \E t \in Tasks : \E d \in Conns : BroadcastWrite(t, d)
    \/ \E t \in Tasks : WriteReturns(t)
    \/ \E t \in Tasks : BroadcastReturn(t)
    \/ \E c \in Conns : ReadEnds(c)
    \/ \E c \in Conns : RemoveClient(c)
    \/ \E c \in Conns : PeerStalls(c)
    \/ \E c \in Conns : PeerReads(c)

\* Goroutines are scheduled fairly and a waiter on a sync.Mutex is not
\* starved (the mutex hands over to a waiter that has waited long), so a
\* task whose next step is possible again and again takes it.  Nothing
\* makes a peer read.
LockSpec == Init /\ [][LockNext]_vars /\ \A t \in Tasks : SF_vars(TaskStep(t))

(* ------------------------- one pane's output -------------------------- *)
\* the bytes a pane's process writes, and what one Read can return: between
\* one byte and a full buffer
StreamBytes == {1, 2}
ReadChunks == UNION {[1..n -> StreamBytes] : n \in 1..BufLen}

\* Pane.Start lines 35-40: Read stores the n bytes it returns at the start
\* of the one buffer allocated at line 33, and the slice buf[:n], which
\* shares that buffer, is sent on Pane.output
PtyRead(chunk) ==
    /\ UNCHANGED nonPipeVars
    /\ Len(stream) + Len(chunk) <= MaxStream
    /\ stream' = stream \o chunk
    /\ buf' = [i \in 1..BufLen |-> IF i <= Len(chunk) THEN chunk[i] ELSE buf[i]]
    /\ output' = Append(output, Len(chunk))
    /\ UNCHANGED payloads

\* NewPane lines 76-86: the goroutine receives the next slice and copies
\* what the slice holds now into the payload of a data message
DrainOutput ==
    /\ UNCHANGED nonPipeVars
    /\ output # <<>>
    /\ payloads' = payloads \o SubSeq(buf, 1, Head(output))
    /\ output' = Tail(output)
    /\ UNCHANGED <<stream, buf>>

PipeNext ==
    \/ \E chunk \in ReadChunks : PtyRead(chunk)
    \/ DrainOutput

PipeSpec == Init /\ [][PipeNext]_vars

(* --------------------- the client's two goroutines -------------------- *)
\* ClientState.paneBuffers as a set of pane ids
PaneBufferIds == {p \in PaneIds : bufWidth[p] # 0}

\* runClient lines 107-110: a SIGWINCH arrives, the screen has a new size
\* and UpdatePaneBufferSizes starts to range over cs.paneBuffers
WindowChanged(width) ==
    /\ UNCHANGED nonRaceVars
    /\ ~clientFatal
    /\ winPc = "wait"
    /\ uiWidth' = width
    /\ winPc' = "update"
    /\ winTodo' = PaneBufferIds
    /\ UNCHANGED <<bufWidth, loopPc, loopPane, clientFatal>>

\* UpdatePaneBufferSizes lines 109-113: one iteration of the loop
UpdateOne(p) ==
    /\ UNCHANGED nonRaceVars
    /\ ~clientFatal
    /\ winPc = "update"
    /\ p \in winTodo
    /\ bufWidth' = [bufWidth EXCEPT ![p] = uiWidth]
    /\ winTodo' = winTodo \ {p}
    /\ UNCHANGED <<uiWidth, winPc, loopPc, loopPane, clientFatal>>

\* UpdatePaneBufferSizes returns; runClient lines 111-121 send the resize
UpdateDone ==
    /\ UNCHANGED nonRaceVars
    /\ ~clientFatal
    /\ winPc = "update"
    /\ winTodo = {}
    /\ winPc' = "wait"
    /\ UNCHANGED <<uiWidth, bufWidth, winTodo, loopPc, loopPane, clientFatal>>

\* runClient lines 149-156: the read loop has decoded a data message or a
\* new-pane notification for pane p and calls its handler.  A data message
\* for a pane without buffer is only logged (HandleDataMessage lines 51-58).
Receive(t, p) ==
    /\ UNCHANGED nonRaceVars
    /\ ~clientFatal
    /\ loopPc = "recv"
    /\ IF t = TData
       THEN IF p \in PaneBufferIds
            THEN loopPc' = "data" /\ loopPane' = p
            ELSE UNCHANGED <<loopPc, loopPane>>
       ELSE loopPc' = "newpane" /\ loopPane' = p
    /\ UNCHANGED <<uiWidth, bufWidth, winPc, winTodo, clientFatal>>

\* HandleDataMessage lines 45-50: pb.Write and Draw are done
DataHandled ==
    /\ UNCHANGED nonRaceVars
    /\ ~clientFatal
    /\ loopPc = "data"
    /\ loopPc' = "recv"
    /\ UNCHANGED <<uiWidth, bufWidth, winPc, winTodo, loopPane, clientFatal>>

\* HandleNewPaneMessage lines 84-88: a buffer of the current screen size is
\* stored in the map.  When the other goroutine is ranging over the map at
\* that moment, the entry may or may not be visited by its loop, or the
\* runtime detects the concurrent map access and ends the process.
NewPaneHandled ==
    /\ UNCHANGED nonRaceVars
    /\ ~clientFatal
    /\ loopPc = "newpane"
    /\ loopPc' = "recv"
    /\ bufWidth' = [bufWidth EXCEPT ![loopPane] = uiWidth]
    /\ IF winPc = "update"
       THEN \E outcome \in {"visited", "missed", "fatal"} :
               /\ winTodo' = IF outcome = "visited" THEN winTodo \cup {loopPane}
                             ELSE winTodo
               /\ clientFatal' = (outcome = "fatal")
       ELSE UNCHANGED <<winTodo, clientFatal>>
    /\ UNCHANGED <<uiWidth, winPc, loopPane>>

RaceNext ==
    \/ \E width \in 1..MaxWidth : WindowChanged(width)
    \/ \E p \in PaneIds : UpdateOne(p)
    \/ UpdateDone
    \/ \E t \in {TData, TNewPaneNotify} : \E p \in PaneIds : Receive(t, p)
    \/ DataHandled
    \/ NewPaneHandled

RaceSpec == Init /\ [][RaceNext]_vars

(* ------------------------ the client's input loop --------------------- *)
\* the key events polled from the screen: Ctrl+a, a key with a character
\* (the command characters d c n p & " o ? and an ordinary one, x), and keys
\* without character
CommandRunes == {100, 99, 110, 112, 38, 34, 111, 63}
SpecialKeys == {"Enter", "Backspace", "Tab", "CtrlC", "CtrlD", "CtrlL", "F1"}
KeyEvents ==
    {[key |-> "CtrlA", rune |-> 0]}
        \cup {[key |-> "Rune", rune |-> r] : r \in CommandRunes \cup {120}}
        \cup {[key |-> k, rune |-> 0] : k \in SpecialKeys}

\* runClient lines 180-198: the command byte of a character typed after the
\* prefix; <<>> for a character that is no command
PrefixCommand(r) ==
    CASE r = 99 -> <<2>>
      [] r = 110 -> <<3>>
      [] r = 112 -> <<4>>
      [] r = 38 -> <<5>>
      [] r = 34 -> <<6>>
      [] r = 111 -> <<7>>
      [] r = 63 -> <<9>>
      [] r = 1 -> <<1>>
      [] OTHER -> <<>>

\* runClient lines 212-227: the bytes of a key without character; <<>> for
\* a key the loop ignores
KeyBytes(k) ==
    CASE k = "Enter" -> <<13>>
      [] k = "Backspace" -> <<127>>
      [] k = "Tab" -> <<9>>
      [] k = "CtrlC" -> <<3>>
      [] k = "CtrlD" -> <<4>>
      [] k = "CtrlL" -> <<12>>
      [] OTHER -> <<>>

\* runClient lines 231-249: the message written for inputData.  One byte
\* between 0x02 and 0x09 goes out as a message of that type without
\* payload, anything else as a data message.
InputMessage(inputData) ==
    IF Len(inputData) = 1 /\ inputData[1] >= 2 /\ inputData[1] <= 9
    THEN [type |-> inputData[1], payload |-> <<>>]
    ELSE [type |-> TData, payload |-> inputData]

\* runClient lines 231-249
SendInput(inputData) ==
    IF Len(inputData) > 0 THEN <<InputMessage(inputData)>> ELSE <<>>

\* runClient lines 170-250: one key event
KeyEvent(ev) ==
    /\ UNCHANGED nonInputVars
    /\ ~inDetached
    /\ inCount < MaxKeys
    /\ inCount' = inCount + 1
    /\ inEvent' = ev
    /\ inPrefix' = prefixMode
    /\ IF ev.key = "CtrlA"
       THEN /\ prefixMode' = TRUE
            /\ inSent' = <<>>
            /\ UNCHANGED inDetached
       ELSE IF prefixMode
       THEN /\ prefixMode' = FALSE
            /\ inDetached' = (ev.rune = 100)
            /\ inSent' = IF ev.rune = 100 THEN <<>>
                         ELSE IF PrefixCommand(ev.rune) # <<>>
                         THEN SendInput(PrefixCommand(ev.rune))
                         ELSE <<[type |-> TData, payload |-> <<1>>]>>
                                  \o SendInput(<<ev.rune>>)
       ELSE /\ inSent' = IF ev.rune # 0 THEN SendInput(<<ev.rune>>)
                         ELSE SendInput(KeyBytes(ev.key))
            /\ UNCHANGED <<prefixMode, inDetached>>

\* runClient lines 168-169: the screen was resized; the resize goroutine is
\* signalled and nothing is sent by the input loop
ResizeEvent ==
    /\ UNCHANGED nonInputVars
    /\ ~inDetached
    /\ inCount < MaxKeys
    /\ inCount' = inCount + 1
    /\ inEvent' = [key |-> "Resize", rune |-> 0]
    /\ inPrefix' = prefixMode
    /\ inSent' = <<>>
    /\ UNCHANGED <<prefixMode, inDetached>>

InputNext ==
    \/ \E ev \in KeyEvents : KeyEvent(ev)
    \/ ResizeEvent

InputSpec == Init /\ [][InputNext]_vars

(* ============================== properties ============================ *)

\* --------------------------------------------------------------------- C1
\* C1: in every reachable state, whatever new-pane, split, next, prev and
\* kill messages the attached clients have sent, a non-empty pane list has
\* 0 <= activePane < len(panes).
C1_ActiveIndexValid ==
    Len(panes) > 0 => (0 <= activePane /\ activePane < Len(panes))

\* a kill has been dispatched on two panes after a creation and a switch
\* back to the first pane
C1_Witness ==
    \E c \in Conns : pc[c] = "RemovePane" /\ Len(panes) = 2 /\ activePane = 0

\* --------------------------------------------------------------------- C2
\* C2: RemovePane applied to the only pane completes and leaves exactly one
\* pane.  To complete, the RemovePane a handler has called must be able to
\* take the session lock (line 237): the lock is not already held by the
\* very goroutine that asks for it, which nothing would ever release.
C2_RemovePaneCompletes ==
    \A c \in Conns : (pc[c] = "RemovePane" /\ Len(panes) = 1) => mutex # c

\* --------------------------------------------------------------------- C3
\* C3: when a successful NewPane on N panes is about to return, there are
\* N+1 panes, the active index is N, and every connection registered when
\* the pane was created has been sent by it exactly the new-pane-notify
\* carrying the new id followed by exactly one redraw.
C3_NewPaneEffect ==
    \A h \in Conns : pc[h] = "np_return" =>
        /\ Len(panes) = Len(opPre.panes) + 1
        /\ activePane = Len(opPre.panes)
        /\ \A c \in opClients :
              opLog[c] = << Msg(TNewPaneNotify, panes[Len(panes)]),
                            Msg(TRedraw, activePane) >>

\* a second pane has been created with every connection attached
C3_Witness ==
    \E h \in Conns : pc[h] = "np_return" /\ Len(panes) = 2 /\ opClients = Conns

\* --------------------------------------------------------------------- C4
\* C4: while NewPane runs, no connection registered when the pane was
\* created has found no buffer for a data message of the new pane, i.e.
\* none has been sent the pane's data before its new-pane-notify.
C4_NoDataBeforeNotify ==
    \A h \in Conns : pc[h] \in {"np_notify", "np_redraw", "np_return"} =>
        \A c \in opClients : panes[Len(panes)] \notin dropped[c]

\* --------------------------------------------------------------------- C5
\* C5: with panes 0 and 1 and pane 1 active, every attached client that has
\* been sent its initial redraw tracks pane 1 as the active pane and has a
\* buffer to apply pane 1's output to.
C5_LateJoinerTracksActive ==
    \A b \in clients :
        (pc[b] = "read" /\ panes = <<0, 1>> /\ activePane = 1 /\ ~InOp) =>
            /\ clientState[b].activePaneID = 1
            /\ 1 \in clientState[b].paneBuffers

\* --------------------------------------------------------------------- C6
\* all broadcasts of the structural operations begun so far have been written
Delivered ==
    \A h \in Conns : pc[h] \notin {"np_notify", "np_redraw", "switchPane", "sw_redraw"}

\* C6: once all broadcasts have been delivered, every client attached
\* throughout tracks the same active pane id, the id of the pane at the
\* daemon's active index.
C6_ClientsConverge ==
    (Delivered /\ Len(panes) > 0) =>
        \A c \in clients :
            throughout[c] => clientState[c].activePaneID = panes[activePane + 1]

\* both clients attached from the start, a pane was created and the active
\* pane switched back to the first one
C6_Witness ==
    /\ Delivered
    /\ mutex = NoOwner
    /\ \A c \in Conns : c \in clients /\ throughout[c]
    /\ Len(panes) = 2
    /\ activePane = 0

\* --------------------------------------------------------------------- C7
\* C7: a next-pane on the last pane makes index 0 active and a prev-pane on
\* index 0 makes the last index active; otherwise the index moves by +1 or
\* -1; the pane list is unchanged; and before the lock is released the
\* switch-pane-notify carrying the newly active pane's id and then a redraw
\* have been broadcast.
C7_SwitchWraps ==
    \A h \in Conns : pc[h] \in {"switchPane", "sw_redraw", "unlock"} =>
        LET n == Len(opPre.panes)
            a == opPre.a
        IN  /\ panes = opPre.panes
            /\ msgType[h] \in {TNextWindow, TNextPane} =>
                  activePane = IF a = n - 1 THEN 0 ELSE a + 1
            /\ msgType[h] = TPrevWindow =>
                  activePane = IF a = 0 THEN n - 1 ELSE a - 1
            /\ pc[h] = "unlock" =>
                  \A c \in opClients :
                      opLog[c] = << Msg(TSwitchNotify, panes[activePane + 1]),
                                    Msg(TRedraw, activePane) >>

\* a prev-pane from index 0 of several panes has wrapped to the last index
C7_Witness ==
    \E h \in Conns :
        /\ pc[h] = "unlock"
        /\ msgType[h] = TPrevWindow
        /\ Len(panes) >= 2
        /\ opPre.a = 0
        /\ activePane = Len(panes) - 1
        /\ opClients # {}

\* --------------------------------------------------------------------- C8
\* the ids of the panes, in list order, are strictly increasing and below
\* the next id
IdsIncreasing ==
    \A i \in 1..Len(panes) :
        /\ panes[i] < nextPaneID
        /\ \A j \in 1..Len(panes) : i < j => panes[i] < panes[j]

\* the next id never goes back, and an id that enters the pane list is one
\* the counter had not passed yet
IdsFresh ==
    /\ nextPaneID' >= nextPaneID
    /\ \A i \in 1..Len(panes') :
          (\A j \in 1..Len(panes) : panes[j] # panes'[i]) =>
              (nextPaneID <= panes'[i] /\ panes'[i] < nextPaneID')

\* C8: pane ids are strictly increasing in creation order, and no id is
\* ever assigned twice, whether creations succeed or fail.
C8_IdsNeverReused == [](IdsIncreasing) /\ [][IdsFresh]_vars

\* two panes have been created
C8_Witness == panes = <<0, 1>> /\ nextPaneID = 2

\* --------------------------------------------------------------------- C9
\* C9: on each direction of a connection, under every interleaving of its
\* writers, the bytes on the stream parse as complete frames with nothing
\* left over, and the messages decoded so far followed by those still on the
\* stream are exactly the messages written, each with the payload its
\* header announces.
C9_FramingNeverCorrupted ==
    \A d \in Dirs :
        LET p == Parse(wire[d])
        IN  /\ p.rest = <<>>
            /\ received[d] \o p.msgs = sent[d]

\* two writers have written to the same stream, one frame has a payload
\* longer than 255 bytes, and the read loop has decoded the first
C9_Witness ==
    /\ Len(sent["toClient"]) = 2
    /\ Len(received["toClient"]) = 1
    /\ \E i \in 1..2 : Len(sent["toClient"][i].payload) = MaxPayload

\* --------------------------------------------------------------------- C10
\* C10: decoding the bytes a writer has built by encoding a message gives
\* back the message's type and payload and leaves no byte unconsumed.
C10_RoundTrip ==
    \A w \in Writers : wbuf[w] # <<>> =>
        LET r == Decode(Head(wbuf[w]))
        IN  /\ r.ok
            /\ r.type = wmsg[w].type
            /\ r.payload = wmsg[w].payload
            /\ r.rest = <<>>

\* a frame with a payload longer than 255 bytes has been built
C10_Witness ==
    \E w \in Writers :
        /\ wbuf[w] # <<>>
        /\ Len(wmsg[w].payload) = MaxPayload
        /\ wmsg[w].type = TData

\* --------------------------------------------------------------------- C11
\* C11: a header that announces a payload longer than the configured
\* maximum makes the decoder fail: it never allocates a payload buffer of
\* that length and never waits for that payload.
C11_OversizeRejected ==
    rdPc = "payload" => rdLen <= FrameLimit

\* --------------------------------------------------------------------- C12
\* a step in which the handler of connection c returns on a read error
ReadFails(c) == pc[c] = "read" /\ pc'[c] = "idle"

\* C12: when a connection ends, in the middle of a frame or not, its
\* handler alone terminates and the connection leaves the client set; the
\* pane list, the active index, the next pane id, the session lock and every
\* other connection's handler, registration and client are unchanged; and
\* the daemon accepts a connection whenever one arrives.
C12_TruncationIsLocal ==
    /\ [][\A c \in Conns : ReadFails(c) =>
            /\ clients' = clients \ {c}
            /\ panes' = panes
            /\ activePane' = activePane
            /\ nextPaneID' = nextPaneID
            /\ mutex' = mutex
            /\ \A d \in Conns \ {c} :
                  /\ pc'[d] = pc[d]
                  /\ clientState'[d] = clientState[d]]_vars
    /\ [](\A c \in Conns : pc[c] = "idle" => ENABLED Attach(c))

\* a connection has ended after a second pane was created, and another
\* client, attached later, is still served
C12_Witness ==
    \E c, d \in Conns :
        /\ c # d
        /\ pc[c] = "idle"
        /\ pc[d] = "read"
        /\ clients = {d}
        /\ opsBegun
        /\ ~throughout[d]
        /\ Len(panes) = 2

\* --------------------------------------------------------------------- C13
\* C13: after every Write, of a single byte or of a longer chunk, the cursor
\* is inside the grid: 0 <= cursorX < width and 0 <= cursorY < height.
C13_CursorInGrid ==
    /\ 0 <= pb.cursorX /\ pb.cursorX < pb.width
    /\ 0 <= pb.cursorY /\ pb.cursorY < pb.height

\* --------------------------------------------------------------------- C14
\* the last Write was given exactly width printable bytes, in the normal
\* state, with the cursor at column 0 of a row of the grid
FullRowWritten ==
    /\ pbLast = "write"
    /\ ~pbBefore.inEscape
    /\ pbBefore.cursorX = 0
    /\ 0 <= pbBefore.cursorY /\ pbBefore.cursorY < pbBefore.height
    /\ pbChunk = FullRow(pbBefore.width)

\* C14: width printable bytes written from (0, row) fill the row and leave
\* the cursor at (0, row + 1) if that row exists; on the last row they cause
\* one scroll (rows shifted up by one, blank bottom row) and leave the cursor
\* at (0, height - 1).
C14_FullRowWraps ==
    FullRowWritten =>
        LET row == pbBefore.cursorY
            filled == [pbBefore.content EXCEPT ![row + 1] = pbChunk]
        IN  IF row + 1 < pb.height
            THEN /\ pb.cursorX = 0
                 /\ pb.cursorY = row + 1
                 /\ pb.content = filled
            ELSE /\ pb.cursorX = 0
                 /\ pb.cursorY = pb.height - 1
                 /\ pb.content = [y \in 1..pb.height |->
                                     IF y < pb.height THEN filled[y + 1]
                                     ELSE [x \in 1..pb.width |-> Blank]]

\* --------------------------------------------------------------------- C15
\* C15: ESC '[' '2' 'J' written in the normal state leaves every cell
\* blank, the cursor at (0,0) and the parser in the normal state, whatever
\* the grid and the cursor were.
C15_ClearScreen ==
    (pbLast = "write" /\ ~pbBefore.inEscape /\ pbChunk = ClearScreen) =>
        /\ pb.content = BlankGrid(pb.width, pb.height)
        /\ pb.cursorX = 0
        /\ pb.cursorY = 0
        /\ ~pb.inEscape

\* --------------------------------------------------------------------- C16
\* C16: an OSC sequence, ESC ']' and any bytes up to BEL or ESC '\',
\* written in the normal state leaves the grid and the cursor as they were
\* and the parser in the normal state: none of its bytes reaches a cell.
C16_OscHasNoEffect ==
    (pbLast = "write" /\ ~pbBefore.inEscape /\ pbChunk \in {OscBel, OscST}) =>
        /\ pb.content = pbBefore.content
        /\ pb.cursorX = pbBefore.cursorX
        /\ pb.cursorY = pbBefore.cursorY
        /\ ~pb.inEscape

\* -------------------------------------------------------------------- C17
\* the state a resize leaves behind: a blank grid of the new size with the
\* cursor at (0,0)
ResizeReinitializes ==
    pbLast = "resize" =>
        /\ pb.content = BlankGrid(pb.width, pb.height)
        /\ Len(pb.content) = pb.height
        /\ \A y \in 1..pb.height : Len(pb.content[y]) = pb.width
        /\ pb.cursorX = 0
        /\ pb.cursorY = 0

\* C17: after a resize every pane buffer has a blank grid of the new size
\* and its cursor at (0,0), whatever it held before, so that the write that
\* follows the resize stays inside the new grid: it does not index outside
\* the grid and leaves the cursor on a cell of the grid.
C17_WriteAfterResizeInGrid ==
    /\ [](ResizeReinitializes)
    /\ [][(pbLast = "resize" /\ pbLast' = "write") =>
            /\ ~pbPanicked'
            /\ 0 <= pb'.cursorX /\ pb'.cursorX < pb'.width
            /\ 0 <= pb'.cursorY /\ pb'.cursorY < pb'.height]_vars


\* -------------------------------------------------------------------- C18
\* a pane whose process has exited is still in the pane list
ExitedPaneStays == \A p \in outputClosed : \E i \in 1..Len(panes) : panes[i] = p

\* C18: after a pane's process has exited the pane stays in the list, a
\* data message to it is dropped and the handler goes on, and a kill-pane on
\* it succeeds: the RemovePane the handler has called for the exited pane
\* can take the session lock, which is not held by the calling handler
\* itself.
C18_KillExitedPane ==
    /\ ExitedPaneStays
    /\ \A c \in Conns :
          (pc[c] = "RemovePane" /\ Len(panes) > 0
              /\ panes[activePane + 1] \in outputClosed) => mutex # c


\* -------------------------------------------------------------------- C19
\* the step in which NewPane, called by handler c, fails to spawn the
\* pane's process and returns the error
SpawnFails(c) == pc[c] = "NewPane" /\ pc'[c] = "np_failed"

\* C19: when spawning the pane process fails, NewPane leaves the pane
\* list, the active index and the next identifier unchanged, starts no
\* task, sends nothing to any client and returns with the lock released;
\* the handler then goes back to reading and the session stays usable.
C19_SpawnFailureLeavesSession ==
    /\ [][\A c \in Conns : SpawnFails(c) =>
            /\ panes' = panes
            /\ activePane' = activePane
            /\ nextPaneID' = nextPaneID
            /\ clients' = clients
            /\ clientState' = clientState
            /\ opLog' = opLog
            /\ outputClosed' = outputClosed
            /\ mutex' = NoOwner]_vars
    /\ [](\A c \in Conns : pc[c] = "np_failed" =>
            /\ ENABLED NewPaneFailed(c)
            /\ mutex # c)

C19_Witness ==
    \E c \in Conns :
        /\ pc[c] = "np_failed"
        /\ clients = Conns
        /\ Len(panes) = 1
        /\ nextPaneID = 1
        /\ mutex = NoOwner

\* -------------------------------------------------------------------- C20
\* C20: split (0x06) and new-pane (0x02) are aliases: a handler that has
\* dispatched either of them calls NewPane in the same situation, without
\* the session lock in its own hands, so that NewPane can take the lock,
\* create the pane, broadcast, and let the handler go on to the next
\* message.
C20_SplitAliasesNewPane ==
    \A c \in Conns :
        (pc[c] = "NewPane" /\ msgType[c] \in {TNewWindow, TSplit}) => mutex # c

\* -------------------------------------------------------------------- C27
\* C27: whatever bytes are written to a PaneBuffer, Write never reads or
\* writes a cell outside the grid: no call has indexed content with a row
\* outside 0..height-1 or a column outside 0..width-1.
C27_WriteNeverIndexesOutside == ~pbPanicked

\* -------------------------------------------------------------------- C21
\* task t is inside a conn.Write that is blocked on a full socket
BlockedInWrite(t) == bPc[t] = "Write" /\ clientMutex = t /\ bCur # 0 /\ sockFull[bCur]

\* C21: a client whose socket write blocks does not stall the others: the
\* task blocked in a Broadcast write holds neither the client lock nor the
\* session lock, so that meanwhile other broadcasts are written, other
\* handlers attach and detach, and other handlers dispatch.
C21_BlockedWriteStallsNobody ==
    \A t \in Tasks : \A c \in Conns \ {t} :
        (bCur # 0 /\ sockFull[bCur] /\ bPc[t] = "Write") =>
            /\ bPc[c] = "AddClient" => ENABLED AddClient(c)
            /\ bPc[c] = "RemoveClient" => ENABLED RemoveClient(c)
            /\ bPc[c] = "Broadcast" => ENABLED BroadcastLock(c)
            /\ (bPc[c] = "read" /\ bMutex \in {NoOwner, t}) => ENABLED Dispatch(c)

\* -------------------------------------------------------------------- C22
\* C22: for a single pane, under every interleaving of the reader with the
\* goroutine that drains the output queue, the data payloads broadcast so
\* far, concatenated, are the beginning of the byte stream the process
\* produced, and are the whole stream once the queue is empty.
C22_OutputInOrderUnaltered ==
    /\ Len(payloads) <= Len(stream)
    /\ payloads = SubSeq(stream, 1, Len(payloads))
    /\ output = <<>> => payloads = stream

\* -------------------------------------------------------------------- C23
\* the notification of the structural change made by the running
\* operation: the new pane's id, or the id of the pane switched to
ChangeNotice ==
    IF Len(panes) > Len(opPre.panes)
    THEN Msg(TNewPaneNotify, panes[Len(panes)])
    ELSE Msg(TSwitchNotify, panes[activePane + 1])

\* C23: every structural change of the session is followed by its broadcast
\* before the session lock is released: in the step in which a handler
\* releases the lock after creating a pane or switching the active index,
\* every connection attached throughout the operation has already been sent
\* the notification of the change followed by the redraw for the new active
\* index; and the lock is held from the change to that step, so no other
\* handler takes it in between.
C23_ChangeBroadcastBeforeUnlock ==
    /\ [][\A h \in Conns : (mutex = h /\ mutex' # h) =>
            \A c \in opClients \cap clients :
                opLog[c] = <<ChangeNotice, Msg(TRedraw, activePane)>>]_vars
    /\ [](\A h \in Conns : pc[h] \in OpPcs => mutex = h)

\* a handler has switched from pane 0 to pane 1 with every connection
\* attached and is about to release the lock
C23_Witness ==
    \E h \in Conns :
        /\ pc[h] = "unlock"
        /\ mutex = h
        /\ Len(panes) = 2
        /\ opPre.a = 0
        /\ activePane = 1
        /\ opClients = Conns
        /\ clients = Conns

\* -------------------------------------------------------------------- C24
\* C24: unregistration always completes: a handler whose read loop has
\* ended and that has called RemoveClient eventually returns from it, with
\* its connection out of the client set, even when a broadcast that
\* includes this connection is in flight.
C24_RemoveClientCompletes ==
    \A c \in Conns : (bPc[c] = "RemoveClient") ~> (bPc[c] = "idle" /\ c \notin bClients)

\* -------------------------------------------------------------------- C25
\* C25: in the client the pane grids and the map of pane grids are only
\* ever accessed by one task: in no reachable state is the window-resize
\* goroutine inside UpdatePaneBufferSizes while the read loop is inside
\* HandleDataMessage or HandleNewPaneMessage.
C25_PaneBuffersOneTask ==
    ~(winPc = "update" /\ loopPc \in {"data", "newpane"})

\* -------------------------------------------------------------------- C26
\* C26: dispatch never deadlocks: whatever message a handler is
\* dispatching, the handler that holds the session lock is on its way to
\* the Unlock that ends the dispatch; it is never itself waiting for the
\* lock it holds, which would leave every other handler waiting for ever.
C26_DispatchNeverDeadlocks ==
    \A c \in Conns : mutex = c => pc[c] \in OpPcs

\* -------------------------------------------------------------------- C28
\* C28: a key pressed outside prefix mode is sent as a data message (type
\* 0x00) that carries the key's bytes; a command message (types 0x02 to
\* 0x09) is sent only for a key that follows the Ctrl+a prefix.
C28_CommandsOnlyAfterPrefix ==
    ~inPrefix =>
        \A i \in 1..Len(inSent) :
            /\ inSent[i].type = TData
            /\ inSent[i].payload = IF inEvent.rune # 0 THEN <<inEvent.rune>>
                                   ELSE KeyBytes(inEvent.key)

=============================================================================
